---------------------------- MODULE Spec2Model ----------------------------
(***************************************************************************)
(* A model of the benchmark programs of using_googlebenchmark:             *)
(*   - BM_Pow as compiled from run_benchmarks.cpp (constant operands,      *)
(*     result printed on std::cout) and as listed at the end of the slide  *)
(*     source (operands drawn from uniform_real_distribution(1, 10),       *)
(*     result written to a stream with no buffer);                         *)
(*   - the Makefile's rules for `make all`;                                *)
(*   - the BM_FibRecursive family registered with RangeMultiplier(2)->     *)
(*     Range(1, 1<<5), and fibr itself;                                    *)
(*   - BM_memcpy and its SetBytesProcessed report.                         *)
(* The benchmark library (State::KeepRunning, Range) is not part of the    *)
(* repository; what the model needs of it is stated where it is used.      *)
(***************************************************************************)
EXTENDS Integers, Sequences, FiniteSets, TLC

(***************************************************************************)
(* Unbounded naturals.  TLC's integers are 32 bits wide, a double reaches  *)
(* 1.8e308 and a uint64_t 1.8e19, so the values the programs compute are   *)
(* kept as sequences of limbs, least significant first, without leading    *)
(* zero limbs (zero is the empty sequence).                                *)
(***************************************************************************)
Base == 10 * 1000

LimbDigits == 2 + 2

RECURSIVE BigFromInt(_)
BigFromInt(n) == IF n = 0 THEN << >> ELSE << n % Base >> \o BigFromInt(n \div Base)

RECURSIVE BigTrim(_)
BigTrim(a) ==
    IF a = << >> THEN << >>
    ELSE IF a[Len(a)] = 0 THEN BigTrim(SubSeq(a, 1, Len(a) - 1)) ELSE a

RECURSIVE BigAddC(_, _, _)
BigAddC(a, b, c) ==
    IF a = << >> /\ b = << >> THEN (IF c = 0 THEN << >> ELSE << c >>)
    ELSE LET x == IF a = << >> THEN 0 ELSE Head(a)
             y == IF b = << >> THEN 0 ELSE Head(b)
             s == x + y + c
         IN  << s % Base >>
             \o BigAddC(IF a = << >> THEN a ELSE Tail(a),
                        IF b = << >> THEN b ELSE Tail(b), s \div Base)

BigAdd(a, b) == BigAddC(a, b, 0)

\* a - b for a >= b
RECURSIVE BigSubC(_, _, _)
BigSubC(a, b, c) ==
    IF a = << >> THEN << >>
    ELSE LET y == IF b = << >> THEN 0 ELSE Head(b)
             d == Head(a) - y - c
         IN  << IF d < 0 THEN d + Base ELSE d >>
             \o BigSubC(Tail(a), IF b = << >> THEN b ELSE Tail(b),
                        IF d < 0 THEN 1 ELSE 0)

BigSub(a, b) == BigTrim(BigSubC(a, b, 0))

\* -1, 0, 1 as a < b, a = b, a > b
RECURSIVE BigCmpFrom(_, _, _)
BigCmpFrom(a, b, i) ==
    IF i = 0 THEN 0
    ELSE IF a[i] < b[i] THEN -1
    ELSE IF a[i] > b[i] THEN 1
    ELSE BigCmpFrom(a, b, i - 1)

BigCmp(a, b) ==
    IF Len(a) < Len(b) THEN -1
    ELSE IF Len(a) > Len(b) THEN 1
    ELSE BigCmpFrom(a, b, Len(a))

BigLeq(a, b) == BigCmp(a, b) <= 0

BigLess(a, b) == BigCmp(a, b) < 0

\* a * k for one limb k
RECURSIVE BigMulLimbC(_, _, _)
BigMulLimbC(a, k, c) ==
    IF a = << >> THEN (IF c = 0 THEN << >> ELSE << c >>)
    ELSE LET p == Head(a) * k + c
         IN  << p % Base >> \o BigMulLimbC(Tail(a), k, p \div Base)

RECURSIVE BigMulFrom(_, _, _, _)
\* acc * Base^i + a * (the lowest i limbs of b); acc is evaluated before the
\* next limb of b is taken up
BigMulFrom(a, b, i, acc) ==
    IF i = 0 \/ Len(acc) < 0 THEN acc
    ELSE BigMulFrom(a, b, i - 1,
                    BigAdd(BigMulLimbC(a, b[i], 0),
                           IF acc = << >> THEN acc ELSE << 0 >> \o acc))

BigMul(a, b) ==
    IF a = << >> \/ b = << >> THEN << >> ELSE BigMulFrom(a, b, Len(b), << >>)

RECURSIVE BigPow(_, _)
BigPow(a, n) ==
    IF n = 0 THEN << 1 >>
    ELSE IF n % 2 = 0 THEN LET h == BigPow(a, n \div 2) IN BigMul(h, h)
    ELSE BigMul(a, BigPow(a, n - 1))

\* 10^n
BigPow10(n) ==
    [i \in 1..(n \div LimbDigits) |-> 0] \o << 10 ^ (n % LimbDigits) >>


(***************************************************************************)
(* Floating-point values.  An operand is a rational [n, d] (d > 0); a      *)
(* result of std::pow is a value of the format Real: a class, a sign and,  *)
(* when finite, m * 10^e with Digits significant digits in m.  The         *)
(* formats differ in their exponent range as float, double and long        *)
(* double do (max_exponent10 and min_exponent10 of numeric_limits).        *)
(***************************************************************************)
Digits == 7

Formats == {"float", "double", "long double"}

MaxExp10(fmt) ==
    CASE fmt = "float" -> 38
      [] fmt = "double" -> 308
      [] fmt = "long double" -> 4932

MinExp10(fmt) ==
    CASE fmt = "float" -> -37
      [] fmt = "double" -> -307
      [] fmt = "long double" -> -4931

\* the first Digits digits of the largest finite value of the format
MaxMant(fmt) ==
    LET d == CASE fmt = "float" -> <<3, 4, 0, 2, 8, 2, 3, 4>>
               [] fmt = "double" -> <<1, 7, 9, 7, 6, 9, 3, 1>>
               [] fmt = "long double" -> <<1, 1, 8, 9, 7, 3, 1, 4>>
        RECURSIVE val(_)
        val(k) == IF k = 0 THEN 0 ELSE 10 * val(k - 1) + d[k]
    IN  val(IF Digits < Len(d) THEN Digits ELSE Len(d))
        * 10 ^ (IF Digits < Len(d) THEN 0 ELSE Digits - Len(d))

Rat(n, d) == [n |-> n, d |-> d]

RatLess(a, b) == a.n * b.d < b.n * a.d

RatLeq(a, b) == a.n * b.d <= b.n * a.d

Max0(x) == IF x > 0 THEN x ELSE 0

\* (s.n/s.d)^(t.n/t.d) >= k * 10^e / q, for s > 0, t >= 0, k >= 0, q > 0:
\* both sides raised to the power t.d and cleared of denominators; num and
\* den are s.n^t.n and s.d^t.n
PowGeqND(num, den, td, k, e, q) ==
    BigLeq(BigMul(BigMul(BigPow(BigFromInt(k), td), den), BigPow10(Max0(e) * td)),
           BigMul(BigMul(BigPow(BigFromInt(q), td), num), BigPow10(Max0(-e) * td)))

PowGeq(s, t, k, e, q) ==
    PowGeqND(BigPow(BigFromInt(s.n), t.n), BigPow(BigFromInt(s.d), t.n), t.d, k, e, q)

\* the largest E in lo..hi with 10^E <= s^t, given 10^lo <= s^t
RECURSIVE ExpUp(_, _, _, _, _)
ExpUp(num, den, td, lo, hi) ==
    IF lo < hi /\ PowGeqND(num, den, td, 1, lo + 1, 1)
    THEN ExpUp(num, den, td, lo + 1, hi) ELSE lo

\* the largest E in lo..hi with 10^E <= s^t, or lo - 1 when there is none
RECURSIVE ExpDown(_, _, _, _, _)
ExpDown(num, den, td, lo, hi) ==
    IF hi < lo \/ PowGeqND(num, den, td, 1, hi, 1)
    THEN hi ELSE ExpDown(num, den, td, lo, hi - 1)

\* one bisection of the range r = << lo, hi >> that holds the largest m with
\* (m - 1/2) * 10^e <= s^t
MantHalve(num, den, td, e, r) ==
    IF r[1] = r[2] THEN r
    ELSE LET mid == (r[1] + r[2] + 1) \div 2
         IN  IF PowGeqND(num, den, td, 2 * mid - 1, e, 2)
             THEN << mid, r[2] >> ELSE << r[1], mid - 1 >>

\* the largest m in lo..hi with (m - 1/2) * 10^e <= s^t, given it holds of lo
RECURSIVE MantSearch(_, _, _, _, _, _)
MantSearch(num, den, td, e, lo, hi) ==
    IF lo = hi THEN lo
    ELSE LET r1 == MantHalve(num, den, td, e, << lo, hi >>)
             r2 == MantHalve(num, den, td, e, r1)
             r3 == MantHalve(num, den, td, e, r2)
             r4 == MantHalve(num, den, td, e, r3)
         IN  MantSearch(num, den, td, e, r4[1], r4[2])

Finite(sign, m, e) == [cls |-> "finite", sign |-> sign, m |-> m, e |-> e]

Special(cls, sign) == [cls |-> cls, sign |-> sign, m |-> 0, e |-> 0]

\* |s|^t for s # 0, rounded to nearest in the format
PowAbs(fmt, s, t, sign) ==
    LET num == BigPow(BigFromInt(IF s.n < 0 THEN -s.n ELSE s.n), t.n)
        den == BigPow(BigFromInt(s.d), t.n)
        E == IF PowGeqND(num, den, t.d, 1, 0, 1)
             THEN ExpUp(num, den, t.d, 0, MaxExp10(fmt) + 1)
             ELSE ExpDown(num, den, t.d, MinExp10(fmt), -1)
        e == E - (Digits - 1)
        m == MantSearch(num, den, t.d, e, 10 ^ (Digits - 1), 10 ^ Digits)
    IN  IF E < MinExp10(fmt) THEN Special("zero", sign)
        ELSE IF E > MaxExp10(fmt) THEN Special("inf", sign)
        ELSE IF E = MaxExp10(fmt) /\ m > MaxMant(fmt) THEN Special("inf", sign)
        ELSE IF m = 10 ^ Digits
             THEN (IF E = MaxExp10(fmt) THEN Special("inf", sign)
                   ELSE Finite(sign, 10 ^ (Digits - 1), e + 1))
        ELSE Finite(sign, m, e)

\* std::pow(s, t) for t >= 0
Pow(fmt, s, t) ==
    IF t.n = 0 THEN Finite(1, 10 ^ (Digits - 1), -(Digits - 1))
    ELSE IF s.n = 0 THEN Special("zero", 1)
    ELSE IF s.n > 0 THEN PowAbs(fmt, s, t, 1)
    ELSE IF t.n % t.d # 0 THEN Special("nan", 1)
    ELSE PowAbs(fmt, s, t, IF (t.n \div t.d) % 2 = 0 THEN 1 ELSE -1)

\* a finite value v against the rational r: v < r, v <= r
FloatVsRat(v, r) ==
    BigCmp(BigMul(BigMul(BigFromInt(v.m), BigFromInt(r.d)), BigPow10(Max0(v.e))),
           BigMul(BigFromInt(r.n), BigPow10(Max0(-v.e))))

(***************************************************************************)
(* State.                                                                  *)
(*   build, real   which BM_Pow is compiled, and the type Real of y        *)
(*   run           invocations of BM_Pow the harness has started           *)
(*   pc            the invocation's position                               *)
(*   state         the benchmark::State passed to the invocation           *)
(*   s, t, y       the invocation's locals                                 *)
(*   cout          what std::cout has received (process-wide)              *)
(*   libm          std::pow of the C library the program is linked with,   *)
(*                 on the operands BM_Pow can pass it                      *)
(*   powArgs       the operands of the last std::pow call                  *)
(*   written       the value last inserted into the invocation's sink      *)
(*   nQuery, nTrue, retFalse   KeepRunning calls, true answers, and        *)
(*                 whether it has answered false, in this invocation       *)
(*   nPow, nDraw, nOutValue, nOutOps   std::pow calls, dis(gen) calls,     *)
(*                 insertions of y and insertions of any kind, in this     *)
(*                 invocation                                              *)
(***************************************************************************)
VARIABLES build, real, run, pc, state, s, t, y, cout, libm, powArgs, written,
          nQuery, nTrue, retFalse, nPow, nDraw, nOutValue, nOutOps

powVars == << build, real, run, pc, state, s, t, y, cout, libm, powArgs, written,
              nQuery, nTrue, retFalse, nPow, nDraw, nOutValue, nOutOps >>

(***************************************************************************)
(* The build tree and make.                                                *)
(*   clock         the time of day                                         *)
(*   mtime         each file's modification time, 0 for a missing file     *)
(*   mkpc          "idle", the target that `make all` considers next, or   *)
(*                 "done"                                                  *)
(*   fromSources   whether the tree held only the sources when the         *)
(*                 current `make all` started                              *)
(*   mkLog         the recipes the current `make all` has run, in order    *)
(*   linkSaw       the times of run_benchmarks.o and run_benchmarks.cpp    *)
(*                 when the link recipe last ran                           *)
(*   srcVer        the contents of run_benchmarks.cpp, counted in saves    *)
(*   built         for each target, the contents it was generated from and *)
(*                 the compiler flags of the recipe that generated it      *)
(*   cleanHist     the `make clean` runs in a row that ended last: how     *)
(*                 many (2 for two or more), the files they removed, and   *)
(*                 whether the tree is still as they left it               *)
(***************************************************************************)
VARIABLES clock, mtime, mkpc, fromSources, mkLog, linkSaw, srcVer, built, cleanHist

mkVars == << clock, mtime, mkpc, fromSources, mkLog, linkSaw, srcVer, built, cleanHist >>

(***************************************************************************)
(* The BM_FibRecursive family.                                             *)
(*   rpc           position in the registration and the run of the family  *)
(*   range_multiplier   the family's multiplier                            *)
(*   args          the arguments Range has requested so far                *)
(*   ri            the loop variable of the range expansion                *)
(*   argIdx        the argument the harness runs                           *)
(*   fstate        the benchmark::State of the BM_FibRecursive invocation  *)
(*   fy            its local y                                             *)
(*   ranWith       the range_x() values of the invocations completed       *)
(*   fcalled       what the invocation's last call of fibr did             *)
(***************************************************************************)
VARIABLES rpc, range_multiplier, args, ri, argIdx, fstate, fy, ranWith, fcalled

famVars == << rpc, range_multiplier, args, ri, argIdx, fstate, fy, ranWith, fcalled >>

(***************************************************************************)
(* One call of fibr.                                                       *)
(*   fn            the argument                                            *)
(*   fpc           "call" before, "done" after                             *)
(*   fret          the value returned                                      *)
(***************************************************************************)
VARIABLES fn, fpc, fret

fibVars == << fn, fpc, fret >>

(***************************************************************************)
(* One invocation of BM_memcpy.                                            *)
(*   mpc           the invocation's position                               *)
(*   mstate        its benchmark::State                                    *)
(*   msrc, mdst    the two buffers: whether allocated, live or freed, and  *)
(*                 their bytes                                             *)
(*   nCopy         memcpy calls completed in this invocation               *)
(*   copied        bytes those calls have written                          *)
(*   nSet          SetBytesProcessed calls in this invocation              *)
(***************************************************************************)
VARIABLES mpc, mstate, msrc, mdst, nCopy, copied, nSet

memVars == << mpc, mstate, msrc, mdst, nCopy, copied, nSet >>

vars == << powVars, mkVars, famVars, fibVars, memVars >>

notPowVars == << mkVars, famVars, fibVars, memVars >>

notMkVars == << powVars, famVars, fibVars, memVars >>

notFamVars == << powVars, mkVars, fibVars, memVars >>

notFibVars == << powVars, mkVars, famVars, memVars >>

notMemVars == << powVars, mkVars, famVars, fibVars >>

\* harness bounds: invocations per run of the program, iterations per invocation
MaxRuns == 2

MaxIter == 2

\* BM_Pow's operands are drawn on the grid of multiples of 1/GridDen; std::pow
\* alone is applied on the finer grid of multiples of 1/FnGridDen
GridDen == 1

FnGridDen == 2

\* dis(0, 10) instead of dis(1, 10)
DisLo_zero == 1 - 1

\* uniform_real_distribution<Real> dis(1, 10): values in [1, 10)
DisLo == 1

DisHi == 10

DrawGrid(den) == {Rat(k, den) : k \in (DisLo * den)..(DisHi * den - 1)}

Draws == DrawGrid(GridDen)

FnDraws == DrawGrid(FnGridDen)

\* the literal 2.1, a slip of the pen for 1.2
Literal21 == Rat(21, 10)

\* the literal 1.2 of run_benchmarks.cpp
Literal12 == Rat(6, 5)

\* precision of operator<<(double) on a default-constructed stream state
CoutPrecision == 6

\* BM_Pow of run_benchmarks.cpp, and BM_Pow of the randomised listing
Builds == {"constant", "random"}

Uninit == Special("uninit", 1)

Newline == Special("newline", 1)

NoOperand == Rat(0, 1)

\* what reading an uninitialised Real may yield
UninitReads ==
    { Special("zero", 1), Special("nan", 1), Special("inf", -1),
      Finite(1, 10 ^ (Digits - 1), -(Digits - 1)),
      Finite(-1, 10 ^ Digits - 1, 2) }

Read(v) == IF v.cls = "uninit" THEN UninitReads ELSE {v}

\* the text operator<< produces: CoutPrecision significant digits
FormatDouble(v) ==
    IF v.cls # "finite" \/ Digits <= CoutPrecision THEN v
    ELSE LET drop == 10 ^ (Digits - CoutPrecision)
             m == (v.m + drop \div 2) \div drop
         IN  IF m = 10 ^ CoutPrecision
             THEN Finite(v.sign, 10 ^ (CoutPrecision - 1), v.e + (Digits - CoutPrecision) + 1)
             ELSE Finite(v.sign, m, v.e + (Digits - CoutPrecision))

Operand(val, origin) == [val |-> val, origin |-> origin]

IdlePow ==
    /\ run = 0
    /\ pc = "idle"
    /\ state = [max_iterations |-> 0, total_iterations |-> 0]
    /\ s = NoOperand /\ t = NoOperand /\ y = Uninit
    /\ cout = << >>
    /\ powArgs = << >>
    /\ written = Uninit
    /\ nQuery = 0 /\ nTrue = 0 /\ retFalse = FALSE
    /\ nPow = 0 /\ nDraw = 0 /\ nOutValue = 0 /\ nOutOps = 0

\* no build of BM_Pow is in play
IdleLibm ==
    /\ build = "constant"
    /\ real = "double"
    /\ libm = << >>

\* the operand pairs BM_Pow can pass to std::pow
PowDomain == (Draws \X Draws) \cup {<< Literal12, Literal12 >>}

InitPow ==
    /\ build \in Builds
    /\ real = "double"
    /\ libm = [p \in PowDomain |-> Pow("double", p[1], p[2])]
    /\ IdlePow

\* the harness calls BM_Pow with a fresh State; the locals of the new
\* invocation are declared, y without an initialiser
Call ==
    /\ pc \in {"idle", "returned"}
    /\ run < MaxRuns
    /\ run' = run + 1
    /\ \E n \in 0..MaxIter :
           state' = [max_iterations |-> n, total_iterations |-> 0]
    /\ s' = NoOperand /\ t' = NoOperand /\ y' = Uninit
    /\ powArgs' = << >>
    /\ written' = Uninit
    /\ nQuery' = 0 /\ nTrue' = 0 /\ retFalse' = FALSE
    /\ nPow' = 0 /\ nDraw' = 0 /\ nOutValue' = 0 /\ nOutOps' = 0
    /\ pc' = IF build = "constant" THEN "query" ELSE "draw_s"
    /\ UNCHANGED notPowVars
    /\ UNCHANGED << build, real, libm, cout >>

\* auto s = dis(gen);
DrawS ==
    /\ pc = "draw_s"
    /\ s' \in Draws
    /\ nDraw' = nDraw + 1
    /\ pc' = "draw_t"
    /\ UNCHANGED notPowVars
    /\ UNCHANGED << build, real, libm, run, state, t, y, cout, powArgs, written,
                    nQuery, nTrue, retFalse, nPow, nOutValue, nOutOps >>

\* auto t = dis(gen);
DrawT ==
    /\ pc = "draw_t"
    /\ t' \in Draws
    /\ nDraw' = nDraw + 1
    /\ pc' = "query"
    /\ UNCHANGED notPowVars
    /\ UNCHANGED << build, real, libm, run, state, s, y, cout, powArgs, written,
                    nQuery, nTrue, retFalse, nPow, nOutValue, nOutOps >>

\* while (state.KeepRunning()): true for the first max_iterations queries
KeepRunning ==
    /\ pc = "query"
    /\ nQuery' = nQuery + 1
    /\ state' = [state EXCEPT !.total_iterations = @ + 1]
    /\ IF state.total_iterations < state.max_iterations
       THEN /\ nTrue' = nTrue + 1
            /\ pc' = "body"
            /\ UNCHANGED retFalse
       ELSE /\ retFalse' = TRUE
            /\ pc' = "write"
            /\ UNCHANGED nTrue
    /\ UNCHANGED notPowVars
    /\ UNCHANGED << build, real, libm, run, s, t, y, cout, powArgs, written,
                    nPow, nDraw, nOutValue, nOutOps >>

\* the operands of the std::pow call in the loop body
PowOperands ==
    IF build = "constant"
    THEN << Operand(Literal12, "literal"), Operand(Literal12, "literal") >>
    ELSE << Operand(s, "random_device"), Operand(t, "random_device") >>

\* a body that evaluates std::pow twice per iteration
Body_PowTwice ==
    /\ pc = "body"
    /\ powArgs' = PowOperands
    /\ y' = libm[<< PowOperands[1].val, PowOperands[2].val >>]
    /\ nPow' = nPow + 2
    /\ pc' = "query"
    /\ UNCHANGED notPowVars
    /\ UNCHANGED << build, real, libm, run, state, s, t, cout, written,
                    nQuery, nTrue, retFalse, nDraw, nOutValue, nOutOps >>

\* a body that also inserts y into the sink, inside the timed loop
Body_Print ==
    /\ pc = "body"
    /\ powArgs' = PowOperands
    /\ y' = libm[<< PowOperands[1].val, PowOperands[2].val >>]
    /\ nPow' = nPow + 1
    /\ written' = y'
    /\ cout' = IF build = "constant" THEN Append(cout, FormatDouble(y')) ELSE cout
    /\ nOutValue' = nOutValue + 1
    /\ nOutOps' = nOutOps + 1
    /\ pc' = "query"
    /\ UNCHANGED notPowVars
    /\ UNCHANGED << build, real, libm, run, state, s, t,
                    nQuery, nTrue, retFalse, nDraw >>

\* a body that leaves the loop after its first iteration
Body_Break ==
    /\ pc = "body"
    /\ powArgs' = PowOperands
    /\ y' = libm[<< PowOperands[1].val, PowOperands[2].val >>]
    /\ nPow' = nPow + 1
    /\ pc' = "write"
    /\ UNCHANGED notPowVars
    /\ UNCHANGED << build, real, libm, run, state, s, t, cout, written,
                    nQuery, nTrue, retFalse, nDraw, nOutValue, nOutOps >>

\* a body that draws s again in every iteration
Body_Redraw ==
    /\ pc = "body"
    /\ \E d \in Draws :
           /\ s' = (IF build = "random" THEN d ELSE s)
           /\ powArgs' = (IF build = "random"
                          THEN << Operand(d, "random_device"), Operand(t, "random_device") >>
                          ELSE PowOperands)
           /\ y' = libm[<< powArgs'[1].val, powArgs'[2].val >>]
    /\ nDraw' = (IF build = "random" THEN nDraw + 1 ELSE nDraw)
    /\ nPow' = nPow + 1
    /\ pc' = "query"
    /\ UNCHANGED notPowVars
    /\ UNCHANGED << build, real, libm, run, state, t, cout, written,
                    nQuery, nTrue, retFalse, nOutValue, nOutOps >>

\* benchmark::DoNotOptimize(y = std::pow(..., ...));
Body ==
    /\ pc = "body"
    /\ powArgs' = PowOperands
    /\ y' = libm[<< PowOperands[1].val, PowOperands[2].val >>]
    /\ nPow' = nPow + 1
    /\ pc' = "query"
    /\ UNCHANGED notPowVars
    /\ UNCHANGED << build, real, libm, run, state, s, t, cout, written,
                    nQuery, nTrue, retFalse, nDraw, nOutValue, nOutOps >>

\* std::cout << y            (run_benchmarks.cpp)
\* std::ostream cnull(0); cnull << y;   (the randomised listing: a stream
\* without a buffer stores nothing)
WriteY ==
    /\ pc = "write"
    /\ \E v \in Read(y) :
           /\ written' = v
           /\ cout' = IF build = "constant"
                      THEN Append(cout, FormatDouble(v)) ELSE cout
    /\ nOutValue' = nOutValue + 1
    /\ nOutOps' = nOutOps + 1
    /\ pc' = IF build = "constant" THEN "newline" ELSE "returned"
    /\ UNCHANGED notPowVars
    /\ UNCHANGED << build, real, libm, run, state, s, t, y, powArgs,
                    nQuery, nTrue, retFalse, nPow, nDraw >>

\* << '\n'
WriteNewline ==
    /\ pc = "newline"
    /\ cout' = Append(cout, Newline)
    /\ nOutOps' = nOutOps + 1
    /\ pc' = "returned"
    /\ UNCHANGED notPowVars
    /\ UNCHANGED << build, real, libm, run, state, s, t, y, powArgs, written,
                    nQuery, nTrue, retFalse, nPow, nDraw, nOutValue >>

NextPow == Call \/ DrawS \/ DrawT \/ KeepRunning \/ Body \/ WriteY \/ WriteNewline

(***************************************************************************)
(* std::pow alone, as BM_PowTemplate<Real> calls it: the operands a        *)
(* uniform_real_distribution<Real>(1, 10) can produce, in each format.     *)
(***************************************************************************)
InitStdPow ==
    /\ build = "random"
    /\ real \in Formats
    /\ run = 0
    /\ pc = "pow_call"
    /\ state = [max_iterations |-> 0, total_iterations |-> 0]
    /\ s \in FnDraws /\ t \in FnDraws /\ y = Uninit
    /\ libm = << >>
    /\ cout = << >>
    /\ powArgs = << >>
    /\ written = Uninit
    /\ nQuery = 0 /\ nTrue = 0 /\ retFalse = FALSE
    /\ nPow = 0 /\ nDraw = 2 /\ nOutValue = 0 /\ nOutOps = 0

\* y = std::pow(s, t)
StdPowCall ==
    /\ pc = "pow_call"
    /\ powArgs' = << Operand(s, "random_device"), Operand(t, "random_device") >>
    /\ y' = Pow(real, s, t)
    /\ nPow' = nPow + 1
    /\ pc' = "pow_done"
    /\ UNCHANGED notPowVars
    /\ UNCHANGED << build, real, libm, run, state, s, t, cout, written,
                    nQuery, nTrue, retFalse, nDraw, nOutValue, nOutOps >>

(***************************************************************************)
(* The Makefile.  Files are named by their suffix: "cpp" is                *)
(* run_benchmarks.cpp, "o" run_benchmarks.o, "x" run_benchmarks.x and "s"  *)
(* run_benchmarks.s.  Recipes succeed, and nobody edits the source or      *)
(* cleans the tree while make is running.                                  *)
(***************************************************************************)
\* the clock stops at MaxClock
MaxClock == 3

\* run_benchmarks.cpp is saved at most MaxEdits times
MaxEdits == 2

Files == {"cpp", "o", "x", "s"}

\* the files with a rule of their own
Targets == {"x", "o", "s"}

\* a rule that links run_benchmarks.x straight from run_benchmarks.cpp
Prereq_XFromCpp == [x |-> "cpp", o |-> "cpp", s |-> "cpp"]

\* run_benchmarks.x: run_benchmarks.o
\* run_benchmarks.o: run_benchmarks.cpp
\* run_benchmarks.s: run_benchmarks.cpp
Prereq == [x |-> "o", o |-> "cpp", s |-> "cpp"]

\* all: run_benchmarks.x run_benchmarks.s
AllPrereqs == << "x", "s" >>

RECURSIVE Chain(_)
\* make brings a target's prerequisite up to date before the target itself
Chain(f) == IF f \in Targets THEN Chain(Prereq[f]) \o << f >> ELSE << >>

\* the order in which `make all` considers the targets
MakeOrder == Chain(AllPrereqs[1]) \o Chain(AllPrereqs[2])

Exists(f) == mtime[f] > 0

\* a target is remade when it is missing, when its prerequisite is newer, or
\* when its prerequisite has been remade by this run of make
OutOfDate(f) ==
    \/ ~Exists(f)
    \/ mtime[Prereq[f]] > mtime[f]
    \/ \E i \in 1..Len(mkLog) : mkLog[i] = Prereq[f]

SourcesOnly == [f \in Files |-> IF f = "cpp" THEN 1 ELSE 0]

NoLink == [ran |-> FALSE, o |-> 0, cpp |-> 0]

\* the compiler's language standard and optimisation level when no flag sets them
NoFlags == [std |-> "default", opt |-> "-O0"]

\* CPPFLAGS:= -std=c++14 -O3
CPPFLAGS == [std |-> "-std=c++14", opt |-> "-O3"]

\* the rules of the README's build sequence: -std=c++14 -O3 spelled out in the
\* rule of run_benchmarks.o, $(CPPFLAGS) in that of run_benchmarks.s, and
\* CPPFLAGS never defined
RecipeFlags_CppflagsUndefined == [o |-> CPPFLAGS, s |-> NoFlags, x |-> NoFlags]

\* the language standard and optimisation level each recipe passes:
\* $(CPPFLAGS) in the rules of run_benchmarks.o and run_benchmarks.s, neither
\* in the link
RecipeFlags == [o |-> CPPFLAGS, s |-> CPPFLAGS, x |-> NoFlags]

\* a target that has not been generated
NotBuilt == [ver |-> 0, flags |-> NoFlags]

NoClean == [n |-> 0, removed |-> {}, fresh |-> FALSE]

\* the contents a recipe reads: the source for the compile and the listing,
\* the object for the link
InputVer(f) == IF Prereq[f] = "cpp" THEN srcVer ELSE built[Prereq[f]].ver

IdleMake ==
    /\ clock = 1
    /\ mtime = SourcesOnly
    /\ mkpc = "idle"
    /\ fromSources = FALSE
    /\ mkLog = << >>
    /\ linkSaw = NoLink
    /\ srcVer = 1
    /\ built = [f \in Targets |-> NotBuilt]
    /\ cleanHist = NoClean

InitMake == IdleMake

\* time passes
Tick ==
    /\ clock < MaxClock
    /\ clock' = clock + 1
    /\ UNCHANGED << mtime, mkpc, fromSources, mkLog, linkSaw, srcVer, built, cleanHist >>
    /\ UNCHANGED notMkVars

\* run_benchmarks.cpp is saved again
EditSource ==
    /\ mkpc \in {"idle", "done"}
    /\ srcVer < 1 + MaxEdits
    /\ mtime' = [mtime EXCEPT !["cpp"] = clock]
    /\ srcVer' = srcVer + 1
    /\ cleanHist' = [cleanHist EXCEPT !.fresh = FALSE]
    /\ mkpc' = "idle"
    /\ UNCHANGED << clock, fromSources, mkLog, linkSaw, built >>
    /\ UNCHANGED notMkVars

\* the history of cleans after one that removes the files matching pats
Cleaned(pats) ==
    LET removed == {f \in pats : Exists(f)}
    IN  IF cleanHist.fresh
        THEN [n |-> 2, removed |-> cleanHist.removed \cup removed, fresh |-> TRUE]
        ELSE [n |-> 1, removed |-> removed, fresh |-> TRUE]

\* rm -f of the files matching pats
Remove(pats) ==
    /\ mtime' = [f \in Files |-> IF f \in pats THEN 0 ELSE mtime[f]]
    /\ built' = [f \in Targets |-> IF f \in pats THEN NotBuilt ELSE built[f]]
    /\ cleanHist' = Cleaned(pats)

\* the clean rule of the earlier draft: rm -f *.x
MakeClean_XOnly ==
    /\ mkpc \in {"idle", "done"}
    /\ Remove({"x"})
    /\ mkpc' = "idle"
    /\ UNCHANGED << clock, fromSources, mkLog, linkSaw, srcVer >>
    /\ UNCHANGED notMkVars

\* clean: rm -f *.x *.s *.o
MakeClean ==
    /\ mkpc \in {"idle", "done"}
    /\ Remove({"x", "s", "o"})
    /\ mkpc' = "idle"
    /\ UNCHANGED << clock, fromSources, mkLog, linkSaw, srcVer >>
    /\ UNCHANGED notMkVars

\* `make all` starts
MakeAll ==
    /\ mkpc \in {"idle", "done"}
    /\ mkpc' = MakeOrder[1]
    /\ fromSources' = (\A f \in Targets : ~Exists(f))
    /\ mkLog' = << >>
    /\ cleanHist' = [cleanHist EXCEPT !.fresh = FALSE]
    /\ UNCHANGED << clock, mtime, linkSaw, srcVer, built >>
    /\ UNCHANGED notMkVars

\* make is done with the target mkpc and turns to the next one
Advance ==
    LET i == CHOOSE k \in 1..Len(MakeOrder) : MakeOrder[k] = mkpc
    IN  mkpc' = IF i = Len(MakeOrder) THEN "done" ELSE MakeOrder[i + 1]

\* a recipe writes its target
Remake(f) ==
    /\ mtime' = [mtime EXCEPT ![f] = clock]
    /\ mkLog' = Append(mkLog, f)
    /\ built' = [built EXCEPT ![f] = [ver |-> InputVer(f), flags |-> RecipeFlags[f]]]

\* run_benchmarks.o: $(CXX) $(CPPFLAGS) -c $< -o $@
UpdateO ==
    /\ mkpc = "o"
    /\ IF OutOfDate("o") THEN Remake("o") ELSE UNCHANGED << mtime, mkLog, built >>
    /\ Advance
    /\ UNCHANGED << clock, fromSources, linkSaw, srcVer, cleanHist >>
    /\ UNCHANGED notMkVars

\* run_benchmarks.x: $(CXX) -o $@ $< -lbenchmark -pthread
UpdateX ==
    /\ mkpc = "x"
    /\ IF OutOfDate("x")
       THEN /\ Remake("x")
            /\ linkSaw' = [ran |-> TRUE, o |-> mtime["o"], cpp |-> mtime["cpp"]]
       ELSE UNCHANGED << mtime, mkLog, linkSaw, built >>
    /\ Advance
    /\ UNCHANGED << clock, fromSources, srcVer, cleanHist >>
    /\ UNCHANGED notMkVars

\* run_benchmarks.s: $(CXX) $(CPPFLAGS) -S -masm=intel $<
UpdateS ==
    /\ mkpc = "s"
    /\ IF OutOfDate("s") THEN Remake("s") ELSE UNCHANGED << mtime, mkLog, built >>
    /\ Advance
    /\ UNCHANGED << clock, fromSources, linkSaw, srcVer, cleanHist >>
    /\ UNCHANGED notMkVars

NextMake == Tick \/ EditSource \/ MakeClean \/ MakeAll \/ UpdateO \/ UpdateX \/ UpdateS

(***************************************************************************)
(* fibr.  A uint64_t result is a number below 2^64, kept in limbs.  The    *)
(* recursion is evaluated bottom-up: row n + 1 of FibrTable is what the    *)
(* call fibr(n) does, given what the calls on smaller arguments do.  The   *)
(* rows are filled in ascending order, the range of arguments being        *)
(* halved to keep the evaluation shallow.                                  *)
(***************************************************************************)
\* the largest argument fibr is called with
MaxFibArg == 95

\* 2^64 = 18446744073709551616, in limbs
W64 == << 1616, 955, 737, 6744, 1844 >>

\* uint64_t addition
Add64(a, b) ==
    LET sum == BigAdd(a, b)
    IN  IF BigLess(sum, W64) THEN sum ELSE BigSub(sum, W64)

\* whether the sum of two uint64_t values does not fit a uint64_t
Carry64(a, b) == LET sum == BigAdd(a, b) IN ~BigLess(sum, W64)

BigMax(a, b) == IF BigLess(a, b) THEN b ELSE a

\* the argument n - k wrapped below 0: a number of at least 2^64 - 2
Wrapped == -1

\* a call that does not return: the recursion from a wrapped argument is
\* deeper than any stack
NoReturn == << -1 >>

\* uint64_t n - k
Dec(n, k) == IF n >= k THEN n - k ELSE Wrapped

\* what a call of fibr does: the value it returns, the arguments of the
\* recursive calls it makes itself, whether an argument wraps anywhere below
\* it, how deep the recursion below it goes, how many calls of fibr are made
\* in all (itself included), whether an addition anywhere in it carries out
\* of 64 bits, and the largest value any call in it returns
FibrRow(ret, calls, wraps, depth, total, carries, peak) ==
    [ret |-> ret, calls |-> calls, wraps |-> wraps, depth |-> depth,
     total |-> total, carries |-> carries, peak |-> peak]

\* a call that returns without recursing
FibrLeaf(ret) == FibrRow(ret, {}, FALSE, 0, BigFromInt(1), FALSE, ret)

\* the recursive call fibr(a), seen from its caller
FibrCall(tbl, a) ==
    IF a = Wrapped THEN FibrRow(NoReturn, {a}, TRUE, 1, NoReturn, FALSE, NoReturn)
    ELSE [tbl[a + 1] EXCEPT !.calls = {a}, !.depth = @ + 1]

\* fibr(a1) + fibr(a2): the calls made are those of the two operands and the
\* call that adds them
FibrSum(c1, c2) ==
    IF c1.ret = NoReturn \/ c2.ret = NoReturn
    THEN FibrRow(NoReturn, c1.calls \cup c2.calls, c1.wraps \/ c2.wraps,
                 IF c1.depth > c2.depth THEN c1.depth ELSE c2.depth,
                 NoReturn, c1.carries \/ c2.carries, NoReturn)
    ELSE FibrRow(Add64(c1.ret, c2.ret),
                 c1.calls \cup c2.calls,
                 c1.wraps \/ c2.wraps,
                 IF c1.depth > c2.depth THEN c1.depth ELSE c2.depth,
                 BigAdd(BigFromInt(1), BigAdd(c1.total, c2.total)),
                 c1.carries \/ c2.carries \/ Carry64(c1.ret, c2.ret),
                 BigMax(Add64(c1.ret, c2.ret), BigMax(c1.peak, c2.peak)))

\* fibr without the case n == 1
FibrBody_NoBaseOne(tbl, n) ==
    IF n = 0 THEN FibrLeaf(BigFromInt(0))
    ELSE FibrSum(FibrCall(tbl, Dec(n, 1)), FibrCall(tbl, Dec(n, 2)))

\* fibr with return fibr(n-1)+fibr(n-1);
FibrBody_SameBranch(tbl, n) ==
    IF n = 0 THEN FibrLeaf(BigFromInt(0))
    ELSE IF n = 1 THEN FibrLeaf(BigFromInt(1))
    ELSE FibrSum(FibrCall(tbl, Dec(n, 1)), FibrCall(tbl, Dec(n, 1)))

\* uint64_t fibr(uint64_t n)
FibrBody(tbl, n) ==
    IF n = 0 THEN FibrLeaf(BigFromInt(0))
    ELSE IF n = 1 THEN FibrLeaf(BigFromInt(1))
    ELSE FibrSum(FibrCall(tbl, Dec(n, 1)), FibrCall(tbl, Dec(n, 2)))

RECURSIVE FibrExtend(_, _, _)
\* tbl holds the rows of the arguments below lo; the rows of lo..hi follow,
\* those of the lower half before those of the upper half
FibrExtend(tbl, lo, hi) ==
    IF lo > hi THEN tbl
    ELSE IF lo = hi THEN Append(tbl, FibrBody(tbl, lo))
    ELSE LET mid == (lo + hi) \div 2
             left == FibrExtend(tbl, lo, mid)
         IN  IF Len(left) = mid + 1 THEN FibrExtend(left, mid + 1, hi)
             ELSE left

FibrTable(n) == FibrExtend(<< >>, 0, n)

fibr(n) == FibrTable(n)[n + 1]

\* no call has been made
NoCall == FibrRow(NoReturn, {}, FALSE, 0, NoReturn, FALSE, NoReturn)

IdleFib ==
    /\ fn = 0
    /\ fpc = "idle"
    /\ fret = NoCall

InitFib ==
    /\ fn \in 0..MaxFibArg
    /\ fpc = "call"
    /\ fret = NoCall

\* fibr(fn)
CallFibr ==
    /\ fpc = "call"
    /\ fret' = fibr(fn)
    /\ fpc' = "done"
    /\ UNCHANGED fn
    /\ UNCHANGED notFibVars

NextFib == CallFibr

(***************************************************************************)
(* BENCHMARK(BM_FibRecursive)->RangeMultiplier(2)->Range(1, 1<<5), and the *)
(* harness running the family: one invocation per requested argument.      *)
(***************************************************************************)
\* iterations per invocation of BM_FibRecursive
MaxFamIter == 3

\* the multiplier of a family that never calls RangeMultiplier
kRangeMultiplier == 2 * 4

kint32max == 2147483647

\* the registration without its RangeMultiplier(2)
RegMultiplier_default == kRangeMultiplier

\* ->RangeMultiplier(2)
RegMultiplier == 2

\* ->Range(1, 1<<5)
RegLo == 1

\* a registration with ->Range(1, 1<<7)
RegHi_Wide == 2 ^ 7

RegHi == 2 ^ 5

\* uint64_t y; without an initialiser
UninitU64 == << -2 >>

IdleFam ==
    /\ rpc = "benchmark"
    /\ range_multiplier = kRangeMultiplier
    /\ args = << >>
    /\ ri = 0
    /\ argIdx = 0
    /\ fstate = [max_iterations |-> 0, total_iterations |-> 0, range_x |-> 0]
    /\ fy = UninitU64
    /\ ranWith = << >>
    /\ fcalled = NoCall

InitFam == IdleFam

\* RangeMultiplier(multiplier)
RangeMultiplier ==
    /\ rpc = "benchmark"
    /\ range_multiplier' = RegMultiplier
    /\ rpc' = "range"
    /\ UNCHANGED << args, ri, argIdx, fstate, fy, ranWith, fcalled >>
    /\ UNCHANGED notFamVars

\* Range(lo, hi): the expansion starts with lo
RangeLo ==
    /\ rpc = "range"
    /\ args' = Append(args, RegLo)
    /\ ri' = 1
    /\ rpc' = "range_loop"
    /\ UNCHANGED << range_multiplier, argIdx, fstate, fy, ranWith, fcalled >>
    /\ UNCHANGED notFamVars

\* Range(lo, hi): the powers of the multiplier strictly between lo and hi
RangeLoop ==
    /\ rpc = "range_loop"
    /\ IF ri < kint32max \div range_multiplier /\ ri < RegHi
       THEN /\ args' = IF ri > RegLo THEN Append(args, ri) ELSE args
            /\ ri' = ri * range_multiplier
            /\ UNCHANGED rpc
       ELSE /\ rpc' = "range_hi"
            /\ UNCHANGED << args, ri >>
    /\ UNCHANGED << range_multiplier, argIdx, fstate, fy, ranWith, fcalled >>
    /\ UNCHANGED notFamVars

\* Range(lo, hi): the expansion ends with hi, unless hi is lo
RangeHi ==
    /\ rpc = "range_hi"
    /\ args' = IF RegHi # RegLo THEN Append(args, RegHi) ELSE args
    /\ argIdx' = 1
    /\ rpc' = "registered"
    /\ UNCHANGED << range_multiplier, ri, fstate, fy, ranWith, fcalled >>
    /\ UNCHANGED notFamVars

\* the harness calls BM_FibRecursive with the next requested argument
FamCall ==
    /\ rpc \in {"registered", "returned"}
    /\ argIdx <= Len(args)
    /\ \E n \in 0..MaxFamIter :
           fstate' = [max_iterations |-> n, total_iterations |-> 0,
                      range_x |-> args[argIdx]]
    /\ fy' = UninitU64
    /\ fcalled' = NoCall
    /\ rpc' = "query"
    /\ UNCHANGED << range_multiplier, args, ri, argIdx, ranWith >>
    /\ UNCHANGED notFamVars

\* while (state.KeepRunning())
FamKeepRunning ==
    /\ rpc = "query"
    /\ fstate' = [fstate EXCEPT !.total_iterations = @ + 1]
    /\ rpc' = IF fstate.total_iterations < fstate.max_iterations
              THEN "body" ELSE "write"
    /\ UNCHANGED << range_multiplier, args, ri, argIdx, fy, ranWith, fcalled >>
    /\ UNCHANGED notFamVars

\* benchmark::DoNotOptimize(y = fibr(state.range_x()));
FamBody ==
    /\ rpc = "body"
    /\ fcalled' = fibr(fstate.range_x)
    /\ fy' = fcalled'.ret
    /\ rpc' = "query"
    /\ UNCHANGED << range_multiplier, args, ri, argIdx, fstate, ranWith >>
    /\ UNCHANGED notFamVars

\* std::ostream cnull(nullptr); cnull << y;  and the return to the harness
FamWrite ==
    /\ rpc = "write"
    /\ ranWith' = Append(ranWith, fstate.range_x)
    /\ argIdx' = argIdx + 1
    /\ rpc' = "returned"
    /\ UNCHANGED << range_multiplier, args, ri, fstate, fy, fcalled >>
    /\ UNCHANGED notFamVars

NextFam ==
    \/ RangeMultiplier \/ RangeLo \/ RangeLoop \/ RangeHi
    \/ FamCall \/ FamKeepRunning \/ FamBody \/ FamWrite

(***************************************************************************)
(* BM_memcpy, registered with Range(8, 8<<10).  A buffer is a sequence of   *)
(* bytes; a byte of a new char[] that nothing has written is MemUninit.     *)
(***************************************************************************)
\* iterations per invocation of BM_memcpy
MaxMemIter == 3

\* the arguments run are MemLo * 2^k for k up to MaxMemArg
MaxMemArg == 3

\* ->Range(8, 8<<10)
MemLo == 8

MemHi == 8 * 2 ^ 10

\* the range_x() values of the invocations
MemArgs == {a \in {MemLo * 2 ^ k : k \in 0..MaxMemArg} : a <= MemHi}

MemUninit == "?"

NoBuffer == [st |-> "none", bytes |-> << >>]

\* new char[n]
NewChars(n) == [st |-> "live", bytes |-> [i \in 1..n |-> MemUninit]]

\* delete[] p
Deleted(buf) == [buf EXCEPT !.st = IF @ = "live" THEN "freed" ELSE "double_free"]

\* state.iterations(): the iterations the loop has completed
Iterations(st) == st.total_iterations

\* memcpy's third argument, one byte short
CopyLen_Short(st) == st.range_x - 1

\* memcpy's third argument
CopyLen(st) == st.range_x

IdleMem ==
    /\ mpc = "idle"
    /\ mstate = [max_iterations |-> 0, total_iterations |-> 0, range_x |-> 0,
                 bytes_processed |-> 0, finished |-> FALSE]
    /\ msrc = NoBuffer /\ mdst = NoBuffer
    /\ nCopy = 0 /\ copied = 0 /\ nSet = 0

InitMem == IdleMem

\* the harness calls BM_memcpy with a fresh State
MemCall ==
    /\ mpc \in {"idle", "returned"}
    /\ \E n \in 0..MaxMemIter, a \in MemArgs :
           mstate' = [max_iterations |-> n, total_iterations |-> 0, range_x |-> a,
                      bytes_processed |-> 0, finished |-> FALSE]
    /\ msrc' = NoBuffer /\ mdst' = NoBuffer
    /\ nCopy' = 0 /\ copied' = 0 /\ nSet' = 0
    /\ mpc' = "new"
    /\ UNCHANGED notMemVars

\* char* src = new char[state.range_x()]; char* dst = new char[state.range_x()];
MemNew ==
    /\ mpc = "new"
    /\ msrc' = NewChars(mstate.range_x)
    /\ mdst' = NewChars(mstate.range_x)
    /\ mpc' = "memset"
    /\ UNCHANGED << mstate, nCopy, copied, nSet >>
    /\ UNCHANGED notMemVars

\* memset(src, 'x', state.range_x());
MemSet ==
    /\ mpc = "memset"
    /\ msrc' = [msrc EXCEPT !.bytes =
                   [i \in 1..Len(@) |-> IF i <= mstate.range_x THEN "x" ELSE @[i]]]
    /\ mpc' = "query"
    /\ UNCHANGED << mstate, mdst, nCopy, copied, nSet >>
    /\ UNCHANGED notMemVars

\* while (state.KeepRunning()): true for the first max_iterations queries; on
\* the false answer total_iterations is left at max_iterations
MemKeepRunning ==
    /\ mpc = "query"
    /\ IF mstate.total_iterations < mstate.max_iterations
       THEN /\ mstate' = [mstate EXCEPT !.total_iterations = @ + 1]
            /\ mpc' = "body"
       ELSE /\ mstate' = [mstate EXCEPT !.total_iterations = mstate.max_iterations,
                                        !.finished = TRUE]
            /\ mpc' = "report"
    /\ UNCHANGED << msrc, mdst, nCopy, copied, nSet >>
    /\ UNCHANGED notMemVars

\* memcpy(dst, src, state.range_x()); a copy longer than a buffer runs over
\* its end
MemBody ==
    /\ mpc = "body"
    /\ LET k == CopyLen(mstate)
       IN  /\ mdst' = IF k <= Len(mdst.bytes) /\ k <= Len(msrc.bytes)
                      THEN [mdst EXCEPT !.bytes =
                               [i \in 1..Len(@) |-> IF i <= k THEN msrc.bytes[i] ELSE @[i]]]
                      ELSE [mdst EXCEPT !.st = "overrun"]
           /\ copied' = copied + k
    /\ nCopy' = nCopy + 1
    /\ mpc' = "query"
    /\ UNCHANGED << mstate, msrc, nSet >>
    /\ UNCHANGED notMemVars

\* state.SetBytesProcessed(int64_t(state.iterations()) * int64_t(state.range_x()));
MemReport ==
    /\ mpc = "report"
    /\ mstate' = [mstate EXCEPT !.bytes_processed = Iterations(mstate) * mstate.range_x]
    /\ nSet' = nSet + 1
    /\ mpc' = "delete"
    /\ UNCHANGED << msrc, mdst, nCopy, copied >>
    /\ UNCHANGED notMemVars

\* delete[] src; delete[] dst;  and the return to the harness
MemDelete ==
    /\ mpc = "delete"
    /\ msrc' = Deleted(msrc)
    /\ mdst' = Deleted(mdst)
    /\ mpc' = "returned"
    /\ UNCHANGED << mstate, nCopy, copied, nSet >>
    /\ UNCHANGED notMemVars

NextMem ==
    \/ MemCall \/ MemNew \/ MemSet \/ MemKeepRunning
    \/ MemBody \/ MemReport \/ MemDelete

Init == InitPow /\ IdleMake /\ IdleFam /\ IdleFib /\ IdleMem

InitSpecStdPow == InitStdPow /\ IdleMake /\ IdleFam /\ IdleFib /\ IdleMem

InitSpecMake == InitMake /\ IdlePow /\ IdleLibm /\ IdleFam /\ IdleFib /\ IdleMem

InitSpecRange == InitFam /\ IdlePow /\ IdleLibm /\ IdleMake /\ IdleFib /\ IdleMem

InitSpecFib == InitFib /\ IdlePow /\ IdleLibm /\ IdleMake /\ IdleFam /\ IdleMem

InitSpecMemcpy == InitMem /\ IdlePow /\ IdleLibm /\ IdleMake /\ IdleFam /\ IdleFib


Next == NextPow

Spec == Init /\ [][Next]_vars

NextStdPow == StdPowCall

SpecStdPow == InitSpecStdPow /\ [][NextStdPow]_vars

SpecMake == InitSpecMake /\ [][NextMake]_vars

SpecRange == InitSpecRange /\ [][NextFam]_vars

SpecFib == InitSpecFib /\ [][NextFib]_vars

SpecMemcpy == InitSpecMemcpy /\ [][NextMem]_vars

\* the program runs on: every enabled step is eventually taken
FairSpec == Spec /\ WF_vars(Next)

(***************************************************************************)
(* Claims about BM_Pow.                                                    *)
(***************************************************************************)
InLoop == pc \in {"query", "body"}

AfterLoop == pc \in {"write", "newline", "returned"}

\* C1, as stated: at every point of an invocation the number of std::pow
\* evaluations equals the number of true answers of KeepRunning so far, none
\* happens before the first query and none after a false answer.
C1_PowCountAlwaysEqual ==
    /\ nPow = nTrue
    /\ (nQuery = 0 => nPow = 0)
    /\ (retFalse => nPow = state.max_iterations)

\* C1, amended: std::pow is evaluated once per true answer of KeepRunning.
\* The two counts are equal whenever control is at a KeepRunning query or past
\* the loop; between a true answer and the assignment to y that follows it the
\* evaluations are exactly one behind.  None happens before the first query,
\* none after the false answer.
C1_OncePerIteration ==
    /\ nPow = IF pc = "body" THEN nTrue - 1 ELSE nTrue
    /\ (nQuery = 0 => nPow = 0)
    /\ (retFalse => nPow = state.max_iterations)
    /\ (nPow > 0 <=> y.cls # "uninit")

C1_Witness == pc = "body" /\ nTrue = 2 /\ nPow = 1

InRange(r) == RatLeq(Rat(1, 1), r) /\ RatLess(r, Rat(10, 1))

\* C2: the two operands of every std::pow call of BM_Pow are drawn at run time
\* from the random source and lie in [1, 10); none is a compile-time constant.
C2_OperandsDrawn ==
    \A i \in 1..Len(powArgs) :
        powArgs[i].origin = "random_device" /\ InRange(powArgs[i].val)

\* C3: in every invocation y is inserted into the sink exactly once, after
\* KeepRunning has answered false; no insertion of any kind happens before the
\* loop or inside it; what is inserted is the value last computed, when one was.
C3_WriteOnceAfterLoop ==
    /\ (nOutOps > 0 => retFalse)
    /\ (~AfterLoop => nOutOps = 0)
    /\ nOutValue <= 1
    /\ (pc \in {"newline", "returned"} => nOutValue = 1)
    /\ (nOutValue = 1 /\ nPow > 0 => written = y)

C3_Witness == pc = "returned" /\ nTrue = 2 /\ nOutValue = 1 /\ written = y

\* C4: the loop is left only on a false answer of KeepRunning, an invocation
\* that has returned has performed exactly state.max_iterations iterations, and
\* every invocation that was called returns.
C4_RunsToCompletion ==
    /\ [](AfterLoop => retFalse)
    /\ [](pc = "returned" =>
             nPow = state.max_iterations /\ nTrue = state.max_iterations)
    /\ ((pc \notin {"idle", "returned"}) ~> (pc = "returned"))

C4_Witness ==
    pc = "returned" /\ state.max_iterations = MaxIter /\ nPow = MaxIter

\* C5: BM_Pow uses no shared mutable state: no step of an invocation changes
\* anything that outlives the invocation or that another invocation can see.
C5_NoSharedState == [][cout' = cout]_vars

\* the randomised BM_Pow is past its two draws
Drawn == pc \in {"query", "body", "write", "returned"}

\* C12: in the randomised BM_Pow, s and t are each drawn exactly once, before
\* the first KeepRunning query; no step of the loop or after it changes them
\* or draws again; every iteration assigns the same value std::pow(s, t) to y,
\* and after at least one iteration that is the value written after the loop.
C12_OperandsDrawnOnce ==
    /\ [](build = "random" =>
             /\ (pc = "draw_s" => nDraw = 0 /\ nQuery = 0)
             /\ (pc = "draw_t" => nDraw = 1 /\ nQuery = 0)
             /\ (Drawn => nDraw = 2)
             /\ (nPow > 0 =>
                    /\ y = libm[<< s, t >>]
                    /\ powArgs[1].val = s /\ powArgs[2].val = t)
             /\ (pc = "returned" /\ nTrue >= 1 => written = libm[<< s, t >>]))
    /\ [][build = "random" /\ pc \in {"query", "body", "write"} =>
              s' = s /\ t' = t /\ nDraw' = nDraw]_vars
    /\ [][build = "random" /\ pc = "body" /\ nPow > 0 => y' = y]_vars

C12_Witness ==
    /\ build = "random" /\ pc = "returned"
    /\ nTrue = MaxIter /\ nPow = MaxIter /\ nDraw = 2
    /\ s # t /\ written = libm[<< s, t >>]

\* C13: whenever BM_Pow writes y after the loop, y holds the result of a
\* std::pow call of the same invocation and is never an unassigned value,
\* whatever iteration count the harness chose, zero iterations included.
C13_WrittenIsComputed ==
    nOutValue = 1 =>
        /\ nPow > 0
        /\ y.cls # "uninit"
        /\ written = y
        /\ written = libm[<< powArgs[1].val, powArgs[2].val >>]

(***************************************************************************)
(* Claims about the values std::pow returns.                               *)
(***************************************************************************)
\* v < 10^k for a finite v
BelowPow10(v, k) == v.e + Digits <= k

\* C6: for operands s and t in [1, 10), as the distribution draws them,
\* std::pow(s, t) is finite and positive in float, double and long double: the
\* exact power lies in [1, 10^10), inside the finite range of each format, and
\* so does the value returned.
C6_PowFinitePositive ==
    pc = "pow_done" =>
        /\ InRange(s) /\ InRange(t)
        /\ PowGeq(s, t, 1, 0, 1)
        /\ ~PowGeq(s, t, 1, 10, 1)
        /\ \A f \in Formats : 10 <= MaxExp10(f)
        /\ y.cls = "finite" /\ y.sign = 1
        /\ FloatVsRat(y, Rat(1, 1)) >= 0
        /\ BelowPow10(y, 10)

C6_Witness ==
    /\ pc = "pow_done" /\ real = "float"
    /\ RatLess(Rat(9, 1), s) /\ RatLess(Rat(9, 1), t)
    /\ y.cls = "finite" /\ ~BelowPow10(y, 9)

\* 1.2445 - 0.001 <= v <= 1.2445 + 0.001
Near12445(v) ==
    /\ v.cls = "finite" /\ v.sign = 1
    /\ FloatVsRat(v, Rat(12435, 10000)) >= 0
    /\ FloatVsRat(v, Rat(12455, 10000)) <= 0

\* v^5 against 1.2^6 = (6/5)^6, for a finite v > 0 with v.e <= 0
FifthPowerVs(v) ==
    BigCmp(BigMul(BigPow(BigFromInt(v.m), 5), BigPow(BigFromInt(5), 6)),
           BigMul(BigPow(BigFromInt(6), 6), BigPow10(5 * (-v.e))))

C8_MakeAllBuilds ==
    /\ (mkpc = "done" => Exists("x") /\ Exists("s"))
    /\ (mkpc = "done" /\ fromSources => mkLog = << "o", "x", "s" >>)
    /\ \A i, j \in 1..Len(mkLog) :
           mkLog[i] = "x" /\ mkLog[j] = "o" => j < i
    /\ (linkSaw.ran => linkSaw.o > 0 /\ linkSaw.o >= linkSaw.cpp)
    /\ (/\ mkpc # "idle" /\ fromSources
        /\ \E i \in 1..Len(mkLog) : mkLog[i] = "x")
       => mkLog[1] = "o" /\ linkSaw.ran /\ linkSaw.o = mtime["o"]

C8_Witness ==
    /\ mkpc = "done" /\ fromSources
    /\ mkLog = << "o", "x", "s" >>
    /\ linkSaw.ran /\ linkSaw.o >= linkSaw.cpp
    /\ Exists("x") /\ Exists("s")

(***************************************************************************)
(* Claims about the BM_FibRecursive family.                                *)
(***************************************************************************)
Requested == << 1, 2, 4, 8, 16, 32 >>

IsPrefix(p, q) == Len(p) <= Len(q) /\ \A i \in 1..Len(p) : p[i] = q[i]

Registered == rpc \in {"registered", "query", "body", "write", "returned"}

\* C9: RangeMultiplier(2)->Range(1, 1<<5) requests exactly 1, 2, 4, 8, 16, 32
\* in that order: each value is lo times a power of the multiplier, both
\* endpoints are requested, nothing outside [1, 32] is, and the invocations
\* of the family see these values, in this order, as state.range_x().
C9_RangeRequests ==
    /\ IsPrefix(args, Requested)
    /\ (Registered => args = Requested)
    /\ \A i \in 1..Len(args) :
           /\ args[i] \in RegLo..RegHi
           /\ \E k \in 0..5 : args[i] = RegLo * RegMultiplier ^ k
    /\ (Registered => args[1] = RegLo /\ args[Len(args)] = RegHi)
    /\ IsPrefix(ranWith, Requested)
    /\ (rpc \in {"query", "body", "write"} => fstate.range_x = Requested[argIdx])
    /\ (Registered /\ argIdx > Len(args) => ranWith = Requested)

C9_Witness == rpc = "returned" /\ argIdx = 7 /\ ranWith = Requested

(***************************************************************************)
(* Claims about fibr.                                                      *)
(***************************************************************************)
\* F(0) = 0, F(1) = 1, F(k) = F(k-1) + F(k-2), given F(0..k-1) in fs
FibNext(fs, k) ==
    IF k = 0 THEN BigFromInt(0)
    ELSE IF k = 1 THEN BigFromInt(1)
    ELSE BigAdd(fs[k], fs[k - 1])

RECURSIVE FibExtend(_, _, _)
\* fs holds F(0..lo-1); F(lo..hi) follow, the lower half first
FibExtend(fs, lo, hi) ==
    IF lo > hi THEN fs
    ELSE IF lo = hi THEN Append(fs, FibNext(fs, lo))
    ELSE LET mid == (lo + hi) \div 2
             left == FibExtend(fs, lo, mid)
         IN  IF Len(left) = mid + 1 THEN FibExtend(left, mid + 1, hi)
             ELSE left

\* the Fibonacci numbers, without a width
F(n) == FibExtend(<< >>, 0, n)[n + 1]

RECURSIVE Mod64(_)
\* a mod 2^64
Mod64(a) == IF BigLess(a, W64) THEN a ELSE Mod64(BigSub(a, W64))

\* the call returns: no argument wraps below 0 anywhere in the recursion, the
\* call recurses only on arguments below its own, and the recursion is no
\* deeper than n
FibrDescends ==
    fpc = "done" =>
        /\ fret.ret # NoReturn
        /\ ~fret.wraps
        /\ \A a \in fret.calls : 0 <= a /\ a < fn
        /\ fret.depth <= fn

\* C10, as stated: for every n >= 0 the call fibr(n) terminates and returns
\* F(n), and never recurses on an argument below 0.
C10_FibrIsFibonacci ==
    /\ FibrDescends
    /\ (fpc = "done" => LET v == F(fn) IN fret.ret = v)

\* C10, amended: for every n >= 0 the call fibr(n) terminates, never recurses
\* on an argument below 0, and returns F(n) mod 2^64; that is F(n) exactly
\* when F(n) < 2^64, which is when n <= 93.
C10_FibrIsFibonacciMod64 ==
    /\ FibrDescends
    /\ fpc = "done" =>
           LET v == F(fn)
           IN  /\ fret.ret = Mod64(v)
               /\ (BigLess(v, W64) => fret.ret = v)
               /\ (BigLess(v, W64) <=> fn <= 93)

C10_Witness ==
    /\ fpc = "done" /\ fn = 93
    /\ LET v == F(93) IN fret.ret = v /\ BigLess(v, W64)
    /\ fret.calls = {92, 91} /\ fret.depth = 92

\* calls(0) = calls(1) = 1, calls(k) = 1 + calls(k-1) + calls(k-2), given
\* calls(0..k-1) in cs
CallsNext(cs, k) ==
    IF k <= 1 THEN BigFromInt(1)
    ELSE BigAdd(BigFromInt(1), BigAdd(cs[k], cs[k - 1]))

RECURSIVE CallsExtend(_, _, _)
\* cs holds calls(0..lo-1); calls(lo..hi) follow, the lower half first
CallsExtend(cs, lo, hi) ==
    IF lo > hi THEN cs
    ELSE IF lo = hi THEN Append(cs, CallsNext(cs, lo))
    ELSE LET mid == (lo + hi) \div 2
             left == CallsExtend(cs, lo, mid)
         IN  IF Len(left) = mid + 1 THEN CallsExtend(left, mid + 1, hi)
             ELSE left

CallsRec(n) == CallsExtend(<< >>, 0, n)[n + 1]

\* C11: the number of calls of fibr made while fibr(n) is evaluated is 1 for
\* n = 0 and n = 1 and 1 + calls(n-1) + calls(n-2) for n >= 2, which is
\* 2 * F(n+1) - 1.  It grows as phi^n: from n = 4 on each step of n multiplies
\* it by a factor between 8/5 and 5/3, phi lying between the two.  It is not
\* bounded by n^3 over the benchmarked arguments: it exceeds n^3 from n = 17
\* on, so at 32.
C11_CallsGrowAsFib ==
    fpc = "done" =>
        LET c == fret.total
            rec == CallsRec(fn)
            next == CallsRec(fn + 1)
            f1 == F(fn + 1)
        IN  /\ c # NoReturn
            /\ c = rec
            /\ BigAdd(c, BigFromInt(1)) = BigAdd(f1, f1)
            /\ (fn <= 1 => c = BigFromInt(1))
            /\ (fn >= 4 =>
                   /\ BigLeq(BigMul(BigFromInt(8), c), BigMul(BigFromInt(5), next))
                   /\ BigLeq(BigMul(BigFromInt(3), next), BigMul(BigFromInt(5), c)))
            /\ (fn >= 17 => BigLess(BigFromInt(fn * fn * fn), c))
            /\ (fn = RegHi => BigLess(BigFromInt(RegHi * RegHi * RegHi), c))

C11_Witness ==
    /\ fpc = "done" /\ fn = RegHi
    /\ fret.total = BigFromInt(7049155)
    /\ BigLess(BigFromInt(RegHi * RegHi * RegHi), fret.total)

(***************************************************************************)
(* Claims about BM_memcpy.                                                 *)
(***************************************************************************)
AllX(n) == [i \in 1..n |-> "x"]

\* C14: in BM_memcpy the processed-byte count is reported exactly once per
\* invocation, after the loop has ended and before the buffers are freed; the
\* value reported is the number of completed iterations times range_x; each
\* iteration copies exactly range_x bytes from src to dst and leaves src as
\* it was.
C14_BytesProcessed ==
    /\ [](/\ nSet <= 1
          /\ (mpc = "returned" => nSet = 1)
          /\ (nSet = 1 => mstate.finished)
          /\ (msrc.st = "freed" \/ mdst.st = "freed" => nSet = 1)
          /\ (mpc = "delete" => nSet = 1 /\ msrc.st = "live" /\ mdst.st = "live")
          /\ (nSet = 1 =>
                 /\ mstate.bytes_processed = nCopy * mstate.range_x
                 /\ mstate.bytes_processed = copied
                 /\ nCopy = mstate.max_iterations)
          /\ (nCopy > 0 =>
                 /\ mdst.bytes = AllX(mstate.range_x)
                 /\ msrc.bytes = AllX(mstate.range_x))
          /\ msrc.st \in {"none", "live", "freed"}
          /\ mdst.st \in {"none", "live", "freed"})
    /\ [][nSet' > nSet =>
              /\ mstate.finished /\ mpc = "report"
              /\ msrc.st = "live" /\ mdst.st = "live"
              /\ msrc'.st = "live" /\ mdst'.st = "live"]_vars
    /\ [][mpc = "body" =>
              /\ msrc' = msrc
              /\ copied' = copied + mstate.range_x
              /\ Len(mdst'.bytes) = mstate.range_x
              /\ \A i \in 1..mstate.range_x : mdst'.bytes[i] = msrc.bytes[i]]_vars

C14_Witness ==
    /\ mpc = "returned" /\ nSet = 1
    /\ mstate.max_iterations = MaxMemIter /\ nCopy = MaxMemIter
    /\ mstate.range_x = MemLo * 2
    /\ mstate.bytes_processed = MaxMemIter * MemLo * 2
    /\ msrc.st = "freed" /\ mdst.st = "freed"

(***************************************************************************)
(* Claims about `make clean` and the flags of the rules.                   *)
(***************************************************************************)
Present == {f \in Files : Exists(f)}

C17_NoOverflowBenchmarked ==
    /\ LET f32 == F(32) IN f32 = BigFromInt(2178309) /\ BigLess(f32, W64)
    /\ (rpc = "body" => fstate.range_x \in {1, 2, 4, 8, 16, 32})
    /\ (fcalled # NoCall =>
           /\ fstate.range_x \in {1, 2, 4, 8, 16, 32}
           /\ ~fcalled.carries /\ ~fcalled.wraps
           /\ fcalled.ret # NoReturn
           /\ BigLeq(fcalled.peak, BigFromInt(2178309))
           /\ BigLeq(fcalled.ret, fcalled.peak)
           /\ LET v == F(fstate.range_x) IN fcalled.ret = v
           /\ fy = fcalled.ret)

C17_Witness ==
    /\ rpc = "returned" /\ fstate.range_x = 32
    /\ fy = BigFromInt(2178309) /\ fcalled.peak = BigFromInt(2178309)
    /\ ~fcalled.carries

=============================================================================
